---- MODULE Spec2Model ----
(***************************************************************************)
(* Model of the SMJ mobile client: the login screen (src/app/login.tsx),   *)
(* the dashboard screen (src/unnamed/part_000) and the tab layout that     *)
(* hosts both (src/app/(tabs)/_layout.tsx).                                *)
(*                                                                         *)
(* Three specifications share the variables:                               *)
(*   LoginSpec  the login form, its validation and its request;           *)
(*   Spec       the dashboard: mount, timer, refresh, retry, responses;    *)
(*   NormSpec   one dashboard fetch answered by every body of AllBodies.   *)
(***************************************************************************)
EXTENDS Integers, Sequences, FiniteSets, TLC

VARIABLES
    \* ---- login screen state (login.tsx 18-21)
    mobileNumber,    \* text of the mobile field, a sequence of characters
    password,        \* text of the password field, a sequence of characters
    loginLoading,    \* LoginScreen.loading
    loginError,      \* LoginScreen.error
    loginInFlight,   \* login requests issued and not yet settled
    \* ---- dashboard screen state (part_000 21-25), of the latest instance
    priceData,       \* DashboardScreen.priceData
    loading,         \* DashboardScreen.loading
    refreshing,      \* DashboardScreen.refreshing
    error,           \* DashboardScreen.error
    lastUpdated,     \* <<>> for null, <<t>> for the Date taken at time t
    \* ---- dashboard environment
    mounted,         \* the latest dashboard instance is mounted
    inst,            \* number of the latest dashboard instance (0: none yet)
    timers,          \* instances whose setInterval handle is active
    inflight,        \* price requests not yet settled, in the order issued
    now,             \* the clock read by new Date()
    \* ---- navigation
    route,           \* the focused screen
    \* ---- observation of the last step
    lastStep,        \* the handler that ran last
    lastPush,        \* the router.push target of the last step, "" if none
    lastResp,        \* the response the last step consumed, NoResp if none
    unhandled,       \* the last step let an exception escape its handler
    overtaken        \* among the fetches of the instance that overlap now, one
                     \* has settled before one that was issued earlier

loginVars == <<mobileNumber, password, loginLoading, loginError, loginInFlight>>
dashVars  == <<priceData, loading, refreshing, error, lastUpdated,
               mounted, inst, timers, inflight, now>>
vars == <<loginVars, dashVars, route, lastStep, lastPush, lastResp,
          unhandled, overtaken>>

-----------------------------------------------------------------------------
(* Bounds of the model *)

MaxPwLen    == 1    \* longest password typed
MaxInFlight == 2    \* most price requests in flight at once
MaxMounts   == 2    \* dashboard instances created
MaxTime     == 1    \* last value of the clock
MaxFragments == 2   \* most fragments in a rejection message

(* Program constants *)

MaxLength       == 10   \* maxLength of the mobile field
MinMobileLength == 10   \* mobileNumber.length < 10

-----------------------------------------------------------------------------
(* JavaScript values: <<type, literal>> *)

Undefined == <<"undefined", "">>
Str(s)    == <<"string", s>>
Num(s)    == <<"number", s>>

\* ToBoolean: undefined, null, '' and 0 are falsy
Truthy(v) == /\ v[1] \notin {"undefined", "null"}
             /\ v # Str("")
             /\ v # Num("0")

\* a || b
Or(a, b) == IF Truthy(a) THEN a ELSE b

\* A parsed JSON body: null, or an object given by its properties.
NullBody    == [null |-> TRUE, f |-> [k \in {} |-> Undefined]]
Object(f)   == [null |-> FALSE, f |-> f]

\* data.k, and data?.k on null
Get(data, k) == IF data.null \/ k \notin DOMAIN data.f THEN Undefined ELSE data.f[k]

\* Error messages are sequences of fragments; s.includes(x) for a fragment x.
Includes(msg, needle) == \E i \in DOMAIN msg : msg[i] = needle

\* A settled request: kind "ok" (2xx, parsable body `data`), "http" (non-2xx
\* with `status`), "reject" (fetch rejects with message `msg`), "badjson"
\* (2xx, response.json() rejects with message `msg`).
NoResp == [kind |-> "none", status |-> "", data |-> NullBody, msg |-> <<>>]
OkResp(data)     == [kind |-> "ok", status |-> "200", data |-> data, msg |-> <<>>]
HttpResp(status) == [kind |-> "http", status |-> status, data |-> NullBody, msg |-> <<>>]
RejectResp(msg)  == [kind |-> "reject", status |-> "", data |-> NullBody, msg |-> msg]
BadJsonResp(msg) == [kind |-> "badjson", status |-> "200", data |-> NullBody, msg |-> msg]

\* The try block throws a value that has no message (undefined, a string, a
\* bare object): error.message.includes in the catch block throws a TypeError.
ThrowResp == [kind |-> "throw", status |-> "", data |-> NullBody, msg |-> <<>>]

\* reading error.message.includes throws
CatchThrows(r) == r.kind = "throw"

\* error.message of what the try block throws
ThrownMessage(r) == IF r.kind = "http"
                    THEN <<"HTTP error! status: ", r.status>>
                    ELSE r.msg

FailureResps ==
    {HttpResp("500")}
    \cup {RejectResp(m) : m \in {<<"Network request failed">>,
                                 <<"Failed to ", "fetch">>,
                                 <<"The request ", "timeout">>,
                                 <<"Aborted">>}}
    \cup {BadJsonResp(<<"JSON Parse error: Unexpected token">>)}

-----------------------------------------------------------------------------
(* Login screen *)

Chars == {" ", "9"}
PwChars == {" ", "s"}

RECURSIVE TrimStart(_)
TrimStart(s) == IF s # <<>> /\ Head(s) = " " THEN TrimStart(Tail(s)) ELSE s

RECURSIVE TrimEnd(_)
TrimEnd(s) == IF s # <<>> /\ s[Len(s)] = " "
              THEN TrimEnd(SubSeq(s, 1, Len(s) - 1))
              ELSE s

\* String.prototype.trim
Trim(s) == TrimEnd(TrimStart(s))

\* validateInputs with the length test moved before the password test
ValidateInputsLengthFirst(m, p) ==
    IF Len(Trim(m)) = 0
    THEN [ok |-> FALSE, error |-> "Mobile number is required"]
    ELSE IF Len(m) < MinMobileLength
    THEN [ok |-> FALSE, error |-> "Please enter a valid mobile number"]
    ELSE IF Len(Trim(p)) = 0
    THEN [ok |-> FALSE, error |-> "Password is required"]
    ELSE [ok |-> TRUE, error |-> ""]

\* validateInputs: the result and the message it sets ("" when it sets none)
ValidateInputs(m, p) ==
    IF Len(Trim(m)) = 0
    THEN [ok |-> FALSE, error |-> "Mobile number is required"]
    ELSE IF Len(Trim(p)) = 0
    THEN [ok |-> FALSE, error |-> "Password is required"]
    ELSE IF Len(m) < MinMobileLength
    THEN [ok |-> FALSE, error |-> "Please enter a valid mobile number"]
    ELSE [ok |-> TRUE, error |-> ""]

\* the success test of handleLogin, reading status alone
LoginSuccessStatusOnly(data) ==
    /\ ~data.null
    /\ Get(data, "status") = Str("success")

\* data && (data.status === 'success' || data.result === 'success'
\*          || data.message === 'Login successful')
LoginSuccess(data) ==
    /\ ~data.null
    /\ \/ Get(data, "status") = Str("success")
       \/ Get(data, "result") = Str("success")
       \/ Get(data, "message") = Str("Login successful")

\* data?.message || 'Invalid credentials. Please try again.'
LoginRefusal(data) ==
    Or(Get(data, "message"), Str("Invalid credentials. Please try again."))[2]

\* the catch block of handleLogin
LoginCatch(msg) ==
    IF Includes(msg, "Network request failed") \/ Includes(msg, "fetch")
    THEN "Network connection error. Please check your internet connection and try again."
    ELSE IF Includes(msg, "timeout")
    THEN "Request timeout. Please try again."
    ELSE "Login failed. Please check your credentials and try again."

LoginBodies ==
    {NullBody} \cup
    {Object([k \in {"status", "result", "message"} |->
                CASE k = "status" -> s [] k = "result" -> r [] OTHER -> m]) :
        s \in {Undefined, Str("success"), Str("error")},
        r \in {Undefined, Str("success")},
        m \in {Undefined, Str(""), Str("Login successful"), Str("Invalid password")}}

LoginResps == {OkResp(d) : d \in LoginBodies} \cup FailureResps \cup {ThrowResp}

\* onChangeText of a field: a character typed at the end or the last one deleted
Edited(text, chars, max) ==
    {Append(text, c) : c \in IF Len(text) < max THEN chars ELSE {}}
    \cup (IF text = <<>> THEN {} ELSE {SubSeq(text, 1, Len(text) - 1)})

\* onChangeText={setMobileNumber}, maxLength={10}, editable={!loading}
ChangeMobileNumber ==
    /\ route = "login"
    /\ ~loginLoading
    /\ \E t \in Edited(mobileNumber, Chars, MaxLength) : mobileNumber' = t
    /\ lastStep' = "setMobileNumber"
    /\ lastPush' = ""
    /\ lastResp' = NoResp
    /\ unhandled' = FALSE
    /\ UNCHANGED overtaken
    /\ UNCHANGED <<password, loginLoading, loginError, loginInFlight, dashVars, route>>

\* onChangeText={setPassword}, editable={!loading}
ChangePassword ==
    /\ route = "login"
    /\ ~loginLoading
    /\ \E t \in Edited(password, PwChars, MaxPwLen) : password' = t
    /\ lastStep' = "setPassword"
    /\ lastPush' = ""
    /\ lastResp' = NoResp
    /\ unhandled' = FALSE
    /\ UNCHANGED overtaken
    /\ UNCHANGED <<mobileNumber, loginLoading, loginError, loginInFlight, dashVars, route>>

\* handleLogin up to its first await, the button never disabled
HandleLoginAlwaysEnabled ==
    /\ route = "login"
    /\ LET v == ValidateInputs(mobileNumber, password) IN
         IF v.ok
         THEN /\ loginError' = ""
              /\ loginLoading' = TRUE
              /\ loginInFlight' = loginInFlight + 1
         ELSE /\ loginError' = v.error
              /\ UNCHANGED <<loginLoading, loginInFlight>>
    /\ lastStep' = "handleLogin"
    /\ lastPush' = ""
    /\ lastResp' = NoResp
    /\ unhandled' = FALSE
    /\ UNCHANGED <<mobileNumber, password, dashVars, route, overtaken>>

\* handleLogin up to its first await; the button is disabled while loading
HandleLogin ==
    /\ route = "login"
    /\ ~loginLoading
    /\ LET v == ValidateInputs(mobileNumber, password) IN
         IF v.ok
         THEN /\ loginError' = ""
              /\ loginLoading' = TRUE
              /\ loginInFlight' = loginInFlight + 1
         ELSE /\ loginError' = v.error
              /\ UNCHANGED <<loginLoading, loginInFlight>>
    /\ lastStep' = "handleLogin"
    /\ lastPush' = ""
    /\ lastResp' = NoResp
    /\ unhandled' = FALSE
    /\ UNCHANGED overtaken
    /\ UNCHANGED <<mobileNumber, password, dashVars, route>>

\* handleLogin after the await, clearing the password when login is refused
LoginResponseClearsPassword(r) ==
    /\ loginInFlight > 0
    /\ loginInFlight' = loginInFlight - 1
    /\ IF r.kind = "ok"
       THEN IF LoginSuccess(r.data)
            THEN /\ lastPush' = "/dashboard"
                 /\ route' = "dashboard"
                 /\ UNCHANGED <<loginError, password>>
            ELSE /\ loginError' = LoginRefusal(r.data)
                 /\ password' = <<>>
                 /\ lastPush' = ""
                 /\ UNCHANGED route
       ELSE /\ IF CatchThrows(r)
               THEN UNCHANGED loginError
               ELSE loginError' = LoginCatch(ThrownMessage(r))
            /\ lastPush' = ""
            /\ UNCHANGED <<route, password>>
    /\ loginLoading' = FALSE
    /\ lastStep' = "loginResponse"
    /\ lastResp' = r
    /\ unhandled' = CatchThrows(r)
    /\ UNCHANGED <<mobileNumber, dashVars, overtaken>>

\* handleLogin from the settling of its request to the end of finally
LoginResponse(r) ==
    /\ loginInFlight > 0
    /\ loginInFlight' = loginInFlight - 1
    /\ IF r.kind = "ok"
       THEN IF LoginSuccess(r.data)
            THEN /\ lastPush' = "/dashboard"
                 /\ route' = "dashboard"
                 /\ UNCHANGED loginError
            ELSE /\ loginError' = LoginRefusal(r.data)
                 /\ lastPush' = ""
                 /\ UNCHANGED route
       ELSE /\ IF CatchThrows(r)
               THEN UNCHANGED loginError
               ELSE loginError' = LoginCatch(ThrownMessage(r))
            /\ lastPush' = ""
            /\ UNCHANGED route
    /\ loginLoading' = FALSE
    /\ lastStep' = "loginResponse"
    /\ lastResp' = r
    /\ unhandled' = CatchThrows(r)
    /\ UNCHANGED <<mobileNumber, password, dashVars, overtaken>>

\* a press on a tab of the tab bar
TabPress(name) ==
    /\ route # name
    /\ route' = name
    /\ lastStep' = "tabPress"
    /\ lastPush' = ""
    /\ lastResp' = NoResp
    /\ unhandled' = FALSE
    /\ UNCHANGED overtaken
    /\ UNCHANGED <<loginVars, dashVars>>

-----------------------------------------------------------------------------
(* Dashboard screen *)

PriceKeys == {"goldPrice1g", "gold_price_1g", "goldPrice8g", "gold_price_8g",
              "silverPrice1g", "silver_price_1g"}

\* useState<PriceData>({}): an object with no property
EmptyObject == [k \in {} |-> Undefined]

\* the object literal of setPriceData, without the 'N/A' defaults
NormalizeNoDefault(data) ==
    [goldPrice1g   |-> Or(Get(data, "goldPrice1g"), Get(data, "gold_price_1g")),
     goldPrice8g   |-> Or(Get(data, "goldPrice8g"), Get(data, "gold_price_8g")),
     silverPrice1g |-> Or(Get(data, "silverPrice1g"), Get(data, "silver_price_1g"))]

\* the object literal of setPriceData, goldPrice8g reading the camelCase key only
NormalizeCamelOnly8g(data) ==
    [goldPrice1g   |-> Or(Or(Get(data, "goldPrice1g"), Get(data, "gold_price_1g")), Str("N/A")),
     goldPrice8g   |-> Or(Get(data, "goldPrice8g"), Str("N/A")),
     silverPrice1g |-> Or(Or(Get(data, "silverPrice1g"), Get(data, "silver_price_1g")), Str("N/A"))]

\* the object literal of setPriceData, silverPrice1g falling back on gold_price_1g
NormalizeSilverFromGold(data) ==
    [goldPrice1g   |-> Or(Or(Get(data, "goldPrice1g"), Get(data, "gold_price_1g")), Str("N/A")),
     goldPrice8g   |-> Or(Or(Get(data, "goldPrice8g"), Get(data, "gold_price_8g")), Str("N/A")),
     silverPrice1g |-> Or(Or(Get(data, "silverPrice1g"), Get(data, "gold_price_1g")), Str("N/A"))]

\* the object literal of setPriceData
Normalize(data) ==
    [goldPrice1g   |-> Or(Or(Get(data, "goldPrice1g"), Get(data, "gold_price_1g")), Str("N/A")),
     goldPrice8g   |-> Or(Or(Get(data, "goldPrice8g"), Get(data, "gold_price_8g")), Str("N/A")),
     silverPrice1g |-> Or(Or(Get(data, "silverPrice1g"), Get(data, "silver_price_1g")), Str("N/A"))]

\* priceData.k || '0', the price handed to a PriceCard
PriceCardPrice(pd, k) == Or(IF k \in DOMAIN pd THEN pd[k] ELSE Undefined, Str("0"))

\* the catch block of fetchPrices, testing 'timeout' first
DashCatchTimeoutFirst(msg) ==
    IF Includes(msg, "timeout")
    THEN "Request timeout. Please try again."
    ELSE IF Includes(msg, "Network request failed") \/ Includes(msg, "fetch")
    THEN "Network connection error. Please check your internet connection."
    ELSE "Failed to fetch prices. Please try again."

\* the catch block of fetchPrices
DashCatch(msg) ==
    IF Includes(msg, "Network request failed") \/ Includes(msg, "fetch")
    THEN "Network connection error. Please check your internet connection."
    ELSE IF Includes(msg, "timeout")
    THEN "Request timeout. Please try again."
    ELSE "Failed to fetch prices. Please try again."

\* priceData once the request has settled, the catch block clearing it
SettledPriceDataClearedOnError(pd, r) ==
    IF r.kind = "ok"
    THEN IF ~r.data.null THEN Normalize(r.data) ELSE pd
    ELSE EmptyObject

\* priceData once the request has settled: set only in the if (data) branch
SettledPriceData(pd, r) ==
    IF r.kind = "ok" /\ ~r.data.null THEN Normalize(r.data) ELSE pd

\* error once the request has settled
SettledError(err, r) ==
    IF r.kind = "ok"
    THEN IF ~r.data.null THEN err ELSE "No price data available"
    ELSE IF CatchThrows(r) THEN err
    ELSE DashCatch(ThrownMessage(r))

\* lastUpdated once the request has settled, the date taken in finally
SettledLastUpdatedInFinally(lu, r, t) == <<t>>

\* lastUpdated once the request has settled: set only next to setPriceData
SettledLastUpdated(lu, r, t) ==
    IF r.kind = "ok" /\ ~r.data.null THEN <<t>> ELSE lu

\* the finally block resetting loading alone
FinallyFlagsLoadingOnly(l, rf) == [loading |-> FALSE, refreshing |-> rf]

\* the finally block resetting refreshing alone
FinallyFlagsRefreshingOnly(l, rf) == [loading |-> l, refreshing |-> FALSE]

\* the finally block: setLoading(false); setRefreshing(false)
FinallyFlags(l, rf) == [loading |-> FALSE, refreshing |-> FALSE]

\* the cleanup of the effect forgetting the interval
CleanupKeepsInterval(ts, i) == ts

\* the cleanup of the effect: clearInterval(interval)
Cleanup(ts, i) == ts \ {i}

FullBody ==
    Object([k \in PriceKeys |->
        CASE k = "goldPrice1g" -> Str("6150")
          [] k = "goldPrice8g" -> Str("49200")
          [] k = "silverPrice1g" -> Str("75")
          [] OTHER -> Undefined])

MixedBody ==
    Object([k \in PriceKeys |->
        CASE k = "gold_price_1g" -> Str("6200")
          [] k = "goldPrice8g" -> Str("49600")
          [] OTHER -> Undefined])

DashBodies == {NullBody, FullBody, MixedBody}

DashResps == {OkResp(d) : d \in DashBodies} \cup FailureResps \cup {ThrowResp}

PriceVals == {Undefined, Str(""), Num("0"), Str("6200"), Str("49600")}

AllBodies == {Object(f) : f \in [PriceKeys -> PriceVals]}

Request(isRefresh, i) == [isRefresh |-> isRefresh, inst |-> i]

\* fetchPrices(isRefresh) of instance i up to its await; the setters of an
\* instance that has been replaced reach no state that is still observed
StartFetch(isRefresh, i) ==
    /\ Len(inflight) < MaxInFlight
    /\ inflight' = Append(inflight, Request(isRefresh, i))
    /\ IF i = inst
       THEN /\ IF isRefresh
               THEN refreshing' = TRUE /\ UNCHANGED loading
               ELSE loading' = TRUE /\ UNCHANGED refreshing
            /\ error' = ""
            /\ overtaken' = IF \E k \in DOMAIN inflight : inflight[k].inst = inst
                            THEN overtaken
                            ELSE FALSE
       ELSE UNCHANGED <<loading, refreshing, error, overtaken>>

\* first render of a new instance and its effect: fetchPrices(), setInterval
Mount ==
    /\ ~mounted
    /\ route = "dashboard"
    /\ inst < MaxMounts
    /\ Len(inflight) < MaxInFlight
    /\ mounted' = TRUE
    /\ inst' = inst + 1
    /\ priceData' = EmptyObject
    /\ lastUpdated' = <<>>
    /\ refreshing' = FALSE
    /\ loading' = TRUE
    /\ error' = ""
    /\ inflight' = Append(inflight, Request(FALSE, inst + 1))
    /\ timers' = timers \cup {inst + 1}
    /\ lastStep' = "mount"
    /\ lastPush' = ""
    /\ lastResp' = NoResp
    /\ unhandled' = FALSE
    /\ overtaken' = FALSE
    /\ UNCHANGED <<loginVars, now, route>>

\* the screen unmounts: the cleanup returned by the effect runs
Unmount ==
    /\ mounted
    /\ mounted' = FALSE
    /\ timers' = Cleanup(timers, inst)
    /\ lastStep' = "unmount"
    /\ lastPush' = ""
    /\ lastResp' = NoResp
    /\ unhandled' = FALSE
    /\ UNCHANGED overtaken
    /\ UNCHANGED <<loginVars, priceData, loading, refreshing, error, lastUpdated,
                   inst, inflight, now, route>>

\* the interval of instance i fires
TimerTick(i) ==
    /\ i \in timers
    /\ StartFetch(FALSE, i)
    /\ lastStep' = "timer"
    /\ lastPush' = ""
    /\ lastResp' = NoResp
    /\ unhandled' = FALSE
    /\ UNCHANGED <<loginVars, priceData, lastUpdated, mounted, inst, timers, now, route>>

\* pull-to-refresh
OnRefresh ==
    /\ mounted
    /\ route = "dashboard"
    /\ StartFetch(TRUE, inst)
    /\ lastStep' = "onRefresh"
    /\ lastPush' = ""
    /\ lastResp' = NoResp
    /\ unhandled' = FALSE
    /\ UNCHANGED <<loginVars, priceData, lastUpdated, mounted, inst, timers, now, route>>

\* the Retry button of the error banner
Retry ==
    /\ mounted
    /\ route = "dashboard"
    /\ error # ""
    /\ StartFetch(FALSE, inst)
    /\ lastStep' = "retry"
    /\ lastPush' = ""
    /\ lastResp' = NoResp
    /\ unhandled' = FALSE
    /\ UNCHANGED <<loginVars, priceData, lastUpdated, mounted, inst, timers, now, route>>

\* fetchPrices after the await, with an in-flight guard: the snapshot and its
\* date are stored only when no fetch issued later is still in flight
PriceResponseNewestOnly(k, r) ==
    /\ k \in 1..Len(inflight)
    /\ inflight' = SubSeq(inflight, 1, k - 1) \o SubSeq(inflight, k + 1, Len(inflight))
    /\ IF inflight[k].inst = inst
       THEN /\ IF \E j \in (k + 1)..Len(inflight) : inflight[j].inst = inst
               THEN UNCHANGED <<priceData, lastUpdated>>
               ELSE /\ priceData' = SettledPriceData(priceData, r)
                    /\ lastUpdated' = SettledLastUpdated(lastUpdated, r, now)
            /\ error' = SettledError(error, r)
            /\ loading' = FinallyFlags(loading, refreshing).loading
            /\ refreshing' = FinallyFlags(loading, refreshing).refreshing
            /\ overtaken' = (overtaken \/ \E j \in 1..(k - 1) : inflight[j].inst = inst)
            /\ lastStep' = "priceResponse"
       ELSE /\ UNCHANGED <<priceData, lastUpdated, error, loading, refreshing, overtaken>>
            /\ lastStep' = "staleResponse"
    /\ lastPush' = ""
    /\ lastResp' = r
    /\ unhandled' = CatchThrows(r)
    /\ UNCHANGED <<loginVars, mounted, inst, timers, now, route>>

\* fetchPrices from the settling of request k to the end of finally
PriceResponse(k, r) ==
    /\ k \in 1..Len(inflight)
    /\ inflight' = SubSeq(inflight, 1, k - 1) \o SubSeq(inflight, k + 1, Len(inflight))
    /\ IF inflight[k].inst = inst
       THEN /\ priceData' = SettledPriceData(priceData, r)
            /\ lastUpdated' = SettledLastUpdated(lastUpdated, r, now)
            /\ error' = SettledError(error, r)
            /\ loading' = FinallyFlags(loading, refreshing).loading
            /\ refreshing' = FinallyFlags(loading, refreshing).refreshing
            /\ overtaken' = (overtaken \/ \E j \in 1..(k - 1) : inflight[j].inst = inst)
            /\ lastStep' = "priceResponse"
       ELSE /\ UNCHANGED <<priceData, lastUpdated, error, loading, refreshing, overtaken>>
            /\ lastStep' = "staleResponse"
    /\ lastPush' = ""
    /\ lastResp' = r
    /\ unhandled' = CatchThrows(r)
    /\ UNCHANGED <<loginVars, mounted, inst, timers, now, route>>

\* handleLogout
HandleLogout ==
    /\ mounted
    /\ route = "dashboard"
    /\ route' = "login"
    /\ lastPush' = "/login"
    /\ lastStep' = "handleLogout"
    /\ lastResp' = NoResp
    /\ unhandled' = FALSE
    /\ UNCHANGED overtaken
    /\ UNCHANGED <<loginVars, dashVars>>

\* time passes
AdvanceTime ==
    /\ now < MaxTime
    /\ now' = now + 1
    /\ UNCHANGED <<loginVars, priceData, loading, refreshing, error, lastUpdated,
                   mounted, inst, timers, inflight, route, lastStep, lastPush, lastResp,
                   unhandled, overtaken>>

InitDash ==
    /\ priceData = EmptyObject
    /\ loading = FALSE
    /\ refreshing = FALSE
    /\ error = ""
    /\ lastUpdated = <<>>
    /\ mounted = FALSE
    /\ inst = 0
    /\ timers = {}
    /\ inflight = <<>>
    /\ now = 0

InitLogin ==
    /\ mobileNumber = <<>>
    /\ password = <<>>
    /\ loginLoading = FALSE
    /\ loginError = ""
    /\ loginInFlight = 0

Init ==
    /\ InitLogin
    /\ InitDash
    /\ route = "login"
    /\ lastStep = "init"
    /\ lastPush = ""
    /\ lastResp = NoResp
    /\ unhandled = FALSE
    /\ overtaken = FALSE

LoginNext ==
    \/ ChangeMobileNumber
    \/ ChangePassword
    \/ HandleLogin
    \/ \E r \in LoginResps : LoginResponse(r)
    \/ \E name \in {"login", "dashboard"} : TabPress(name)

LoginSpec == Init /\ [][LoginNext]_vars

Next ==
    \/ Mount
    \/ Unmount
    \/ \E i \in timers : TimerTick(i)
    \/ OnRefresh
    \/ Retry
    \/ \E k \in 1..Len(inflight), r \in DashResps : PriceResponse(k, r)
    \/ HandleLogout
    \/ AdvanceTime
    \/ \E name \in {"login", "dashboard"} : TabPress(name)

Spec == Init /\ [][Next]_vars

\* one response of each outcome: a snapshot, a caught failure, an uncaught one
LiveResps == {OkResp(FullBody), HttpResp("500"), ThrowResp}

\* the steps of the dashboard that start and settle fetches
LiveNext ==
    \/ Mount
    \/ Unmount
    \/ \E i \in timers : TimerTick(i)
    \/ OnRefresh
    \/ Retry
    \/ \E k \in 1..Len(inflight), r \in LiveResps : PriceResponse(k, r)
    \/ \E name \in {"login", "dashboard"} : TabPress(name)

\* every request in flight settles in the end
LiveSpec ==
    /\ Init
    /\ [][LiveNext]_vars
    /\ WF_vars(\E k \in 1..Len(inflight), r \in LiveResps : PriceResponse(k, r))

\* one fetch of one instance, answered by any body of AllBodies
NormNext ==
    \/ TabPress("dashboard")
    \/ Mount
    \/ /\ inflight # <<>>
       /\ \E d \in AllBodies : PriceResponse(1, OkResp(d))

NormSpec == Init /\ [][NormNext]_vars

\* The fragments the catch blocks look for, and one they do not.
Fragments == {"Network request failed", "fetch", "timeout", "Aborted"}

ClassMessages == UNION {[1..n -> Fragments] : n \in 1..MaxFragments}

\* every way a request fails
ClassResps ==
    {HttpResp("404"), HttpResp("500"), ThrowResp,
     BadJsonResp(<<"JSON Parse error: Unexpected token">>)}
    \cup {RejectResp(m) : m \in ClassMessages}

\* the login form filled in with a valid number and a password
ClassInit ==
    /\ mobileNumber = [i \in 1..MaxLength |-> "9"]
    /\ password = <<"s">>
    /\ loginLoading = FALSE
    /\ loginError = ""
    /\ loginInFlight = 0
    /\ InitDash
    /\ route = "login"
    /\ lastStep = "init"
    /\ lastPush = ""
    /\ lastResp = NoResp
    /\ unhandled = FALSE
    /\ overtaken = FALSE

\* both screens, every request answered by a failure of ClassResps
ClassNext ==
    \/ HandleLogin
    \/ \E r \in ClassResps : LoginResponse(r)
    \/ \E name \in {"login", "dashboard"} : TabPress(name)
    \/ Mount
    \/ Retry
    \/ OnRefresh
    \/ \E k \in 1..Len(inflight), r \in ClassResps : PriceResponse(k, r)

ClassSpec == ClassInit /\ [][ClassNext]_vars

-----------------------------------------------------------------------------
(* Claims about the login screen, checked under LoginSpec *)

\* C1: a submission whose mobile number is shorter than 10 characters after
\* trimming is rejected locally: an error message is set, no request is
\* issued and nothing is pushed on the router, whatever the password and also
\* when only surrounding whitespace brings the untrimmed length to 10.
C1_ShortTrimmedMobileRejected ==
    (lastStep = "handleLogin" /\ Len(Trim(mobileNumber)) < 10)
        => /\ loginError # ""
           /\ loginInFlight = 0
           /\ ~loginLoading
           /\ lastPush = ""

\* C2 as stated: a submission with an empty password is rejected locally
\* without a request and shows 'Password is required', whatever the mobile
\* number field holds.
C2_EmptyPasswordAlwaysPasswordMessage ==
    (lastStep = "handleLogin" /\ password = <<>>)
        => /\ loginInFlight = 0
           /\ loginError = "Password is required"

\* C2 amended: a submission with an empty password is rejected locally
\* without a request; it shows 'Password is required' when the mobile number
\* is not blank (too short included), and 'Mobile number is required' when
\* the mobile number is blank.
C2_EmptyPasswordRejected ==
    (lastStep = "handleLogin" /\ password = <<>>)
        => /\ loginInFlight = 0
           /\ ~loginLoading
           /\ lastPush = ""
           /\ loginError = IF Len(Trim(mobileNumber)) = 0
                           THEN "Mobile number is required"
                           ELSE "Password is required"

\* C2 witness: an empty password submitted with a too short mobile number
C2_Witness ==
    /\ lastStep = "handleLogin"
    /\ password = <<>>
    /\ mobileNumber = <<"9", "9", "9">>
    /\ loginError = "Password is required"

\* C3: when a login request settles with an OK response and a parsed body,
\* the client pushes the dashboard iff status is 'success' or result is
\* 'success' or message is 'Login successful'; otherwise nothing is pushed
\* and the banner holds the body's message when it has a non-empty one, else
\* 'Invalid credentials. Please try again.'.
C3_SuccessIffAnyOfThree ==
    (lastStep = "loginResponse" /\ lastResp.kind = "ok")
        => LET d == lastResp.data
               has(k, s) == ~d.null /\ k \in DOMAIN d.f /\ d.f[k] = <<"string", s>>
               success == \/ has("status", "success")
                          \/ has("result", "success")
                          \/ has("message", "Login successful")
               message == IF d.null THEN <<"undefined", "">> ELSE d.f["message"]
           IN  /\ (lastPush = "/dashboard") <=> success
               /\ success => route = "dashboard"
               /\ ~success =>
                    loginError = IF message[1] = "string" /\ message[2] # ""
                                 THEN message[2]
                                 ELSE "Invalid credentials. Please try again."

\* C3 witness: { message: 'Invalid password' } is shown and nothing is pushed
C3_Witness ==
    /\ lastStep = "loginResponse"
    /\ lastResp.kind = "ok"
    /\ ~lastResp.data.null
    /\ lastResp.data.f["status"] = Undefined
    /\ lastResp.data.f["message"] = Str("Invalid password")
    /\ loginError = "Invalid password"
    /\ lastPush = ""
    /\ route = "login"

\* C13: at most one login request is in flight; loading is true exactly
\* while one is, the submit action is then disabled, and loading is false
\* again once the request has settled, with success or failure.
C13_OneLoginInFlight ==
    /\ loginInFlight <= 1
    /\ loginLoading <=> (loginInFlight = 1)
    /\ loginLoading => ~ENABLED HandleLogin
    /\ lastStep = "loginResponse" => (~loginLoading /\ loginInFlight = 0)

\* C13 witness: a submission in flight
C13_Witness ==
    /\ lastStep = "handleLogin"
    /\ loginLoading
    /\ loginInFlight = 1
    /\ loginError = ""

\* C16: no step of handleLogin, be the submission rejected by validation,
\* sent, failed on the network, refused by the server or accepted, changes
\* mobileNumber or password: the form keeps the values that were submitted.
C16_SubmissionKeepsFields ==
    [][lastStep' \in {"handleLogin", "loginResponse"}
          => (mobileNumber' = mobileNumber /\ password' = password)]_vars

\* C16 witness: the server has refused the login and the form is still filled
C16_Witness ==
    /\ lastStep = "loginResponse"
    /\ lastResp.kind = "ok"
    /\ loginError = "Invalid password"
    /\ mobileNumber = [i \in 1..10 |-> "9"]
    /\ password = <<"s">>

-----------------------------------------------------------------------------
(* Claims about the dashboard screen, checked under Spec *)

SnapshotKeys == {"goldPrice1g", "goldPrice8g", "silverPrice1g"}

Failed(r) == r.kind \in {"http", "reject", "badjson"}

\* C4: a price fetch that fails (non-2xx, rejected fetch or unparsable body)
\* leaves priceData as it was, so the snapshot of an earlier success stays,
\* and leaves a non-empty error banner.
C4_FailedFetchKeepsPrices ==
    [][(/\ Len(inflight') < Len(inflight)
        /\ lastStep' = "priceResponse"
        /\ Failed(lastResp'))
         => (priceData' = priceData /\ error' # "")]_vars

\* C4 witness: a failure settled after a success, the snapshot still shown
C4_Witness ==
    /\ lastStep = "priceResponse"
    /\ Failed(lastResp)
    /\ lastUpdated # <<>>
    /\ DOMAIN priceData = SnapshotKeys
    /\ priceData["goldPrice1g"] = Str("6200")
    /\ error # ""

\* C5 as stated: loading and refreshing are never both true.
C5_AtMostOneFlag == ~(loading /\ refreshing)

\* C5 amended: loading and refreshing are both true only while a scheduled
\* fetch (mount, timer or retry) and a pull-to-refresh fetch of the screen are
\* in flight together; with fewer than two fetches in flight at most one of
\* them is true.
C5_BothOnlyWhileOverlapping ==
    LET mine == {k \in DOMAIN inflight : inflight[k].inst = inst} IN
    /\ (loading /\ refreshing) =>
          /\ \E k \in mine : inflight[k].isRefresh
          /\ \E k \in mine : ~inflight[k].isRefresh
    /\ Cardinality(mine) < 2 => ~(loading /\ refreshing)

\* C5 witness: both flags true during an overlap
C5_Witness ==
    /\ loading
    /\ refreshing
    /\ mounted
    /\ Len(inflight) = 2

\* C6 as stated: from mount onward priceData has exactly the three fields
\* and none of them is undefined.
C6_AlwaysThreeFields ==
    inst > 0 =>
        /\ DOMAIN priceData = SnapshotKeys
        /\ \A k \in DOMAIN priceData : priceData[k] # <<"undefined", "">>

\* C6 amended: from mount until the first snapshot is stored priceData is the
\* empty object; from then on it has exactly the three fields, none of them
\* undefined or empty; and in every state the three prices handed to the
\* price cards (priceData.x || '0') are defined.
C6_ThreeFieldsOnceStored ==
    inst > 0 =>
        /\ IF lastUpdated = <<>>
           THEN DOMAIN priceData = {}
           ELSE /\ DOMAIN priceData = SnapshotKeys
                /\ \A k \in SnapshotKeys :
                      priceData[k] \notin {<<"undefined", "">>, <<"string", "">>}
        /\ \A k \in SnapshotKeys :
              PriceCardPrice(priceData, k) \notin {<<"undefined", "">>, <<"string", "">>}

\* C6 witness: a stored snapshot whose missing field became 'N/A'
C6_Witness ==
    /\ lastUpdated # <<>>
    /\ DOMAIN priceData = SnapshotKeys
    /\ priceData["silverPrice1g"] = Str("N/A")

\* C7: while the screen is mounted exactly one interval is active, its own;
\* once it has unmounted no interval is active and no timer tick starts a
\* fetch, through any sequence of mounts, ticks, refreshes and unmounts.
C7_TimerFollowsMount ==
    /\ mounted => timers = {inst}
    /\ ~mounted => (timers = {} /\ lastStep # "timer")

\* C7 witness: the second instance has unmounted with two requests in flight
C7_Witness ==
    /\ ~mounted
    /\ inst = 2
    /\ lastStep = "unmount"
    /\ timers = {}
    /\ \E k \in DOMAIN inflight : inflight[k] = Request(FALSE, 2)
    /\ Len(inflight) = 2

\* C10: within an instance lastUpdated changes only in the step in which a
\* fetch settles with a snapshot, and then to the current time; a failed
\* fetch and the start of a fetch leave it unchanged.
C10_LastUpdatedOnlyOnSuccess ==
    [][/\ (lastUpdated' # lastUpdated /\ inst' = inst)
            => /\ Len(inflight') < Len(inflight)
               /\ lastStep' = "priceResponse"
               /\ lastResp'.kind = "ok"
               /\ ~lastResp'.data.null
               /\ DOMAIN priceData' = SnapshotKeys
               /\ lastUpdated' = <<now>>
       /\ (Len(inflight') < Len(inflight) /\ lastResp'.kind # "ok")
            => lastUpdated' = lastUpdated
       /\ (Len(inflight') > Len(inflight) /\ inst' = inst)
            => lastUpdated' = lastUpdated]_vars

\* C10 witness: a failure settled at time 1 keeps the date of the success at 0
C10_Witness ==
    /\ lastStep = "priceResponse"
    /\ Failed(lastResp)
    /\ lastUpdated = <<0>>
    /\ now = 1
    /\ error # ""

\* C11: once the screen has unmounted none of its state (priceData, loading,
\* refreshing, error, lastUpdated) is written any more, not even by a fetch
\* that was started before the unmount and settles after it.
C11_NoUpdateAfterUnmount ==
    [][(~mounted /\ ~mounted')
          => UNCHANGED <<priceData, loading, refreshing, error, lastUpdated>>]_vars

-----------------------------------------------------------------------------
(* Claims about the normalisation, checked under NormSpec *)

SnakeOf(k) == CASE k = "goldPrice1g" -> "gold_price_1g"
                [] k = "goldPrice8g" -> "gold_price_8g"
                [] k = "silverPrice1g" -> "silver_price_1g"

SnakeOnly(d) == ~d.null /\ \A k \in SnapshotKeys : d.f[k] = <<"undefined", "">>

\* the same values under the camelCase keys
CamelTwin(d) ==
    [null |-> FALSE,
     f |-> [k \in DOMAIN d.f |-> IF k \in SnapshotKeys THEN d.f[SnakeOf(k)]
                                 ELSE <<"undefined", "">>]]

\* C8: the snapshot stored for a response that has only the snake_case keys
\* is the snapshot of the response with the same values under the camelCase
\* keys.
C8_SnakeEqualsCamel ==
    (lastStep = "priceResponse" /\ lastResp.kind = "ok" /\ SnakeOnly(lastResp.data))
        => priceData = Normalize(CamelTwin(lastResp.data))

\* C8 witness: a snake_case only response with three prices
C8_Witness ==
    /\ lastStep = "priceResponse"
    /\ SnakeOnly(lastResp.data)
    /\ lastResp.data.f["gold_price_1g"] = Str("6200")
    /\ lastResp.data.f["gold_price_8g"] = Str("49600")
    /\ lastResp.data.f["silver_price_1g"] = Str("6200")
    /\ priceData = [goldPrice1g |-> Str("6200"), goldPrice8g |-> Str("49600"),
                    silverPrice1g |-> Str("6200")]

\* C9: each field of the stored snapshot depends on its own two keys alone:
\* the camelCase value if it is set, else the snake_case value if it is set,
\* else 'N/A'; so a field absent under both spellings is 'N/A'.
C9_AbsentFieldIsNA ==
    (lastStep = "priceResponse" /\ lastResp.kind = "ok" /\ ~lastResp.data.null)
        => LET d == lastResp.data.f
               unset == {<<"undefined", "">>, <<"string", "">>, <<"number", "0">>}
           IN  /\ DOMAIN priceData = SnapshotKeys
               /\ \A k \in SnapshotKeys :
                    /\ priceData[k] = IF d[k] \notin unset THEN d[k]
                                      ELSE IF d[SnakeOf(k)] \notin unset THEN d[SnakeOf(k)]
                                      ELSE <<"string", "N/A">>
                    /\ (d[k] = <<"undefined", "">> /\ d[SnakeOf(k)] = <<"undefined", "">>)
                          => priceData[k] = <<"string", "N/A">>

\* C9 witness: { gold_price_1g: '6200', goldPrice8g: '49600' }
C9_Witness ==
    /\ lastStep = "priceResponse"
    /\ lastResp.data = MixedBody
    /\ priceData = [goldPrice1g |-> Str("6200"), goldPrice8g |-> Str("49600"),
                    silverPrice1g |-> Str("N/A")]

-----------------------------------------------------------------------------
(* Claims about overlapping fetches, checked under Spec *)

\* the snapshot of a body, field by field
SnapshotOf(d) ==
    [k \in SnapshotKeys |->
        LET unset == {<<"undefined", "">>, <<"string", "">>, <<"number", "0">>} IN
        IF d.f[k] \notin unset THEN d.f[k]
        ELSE IF d.f[SnakeOf(k)] \notin unset THEN d.f[SnakeOf(k)]
        ELSE <<"string", "N/A">>]

\* C12: within an instance every fetch that settles with a body stores the
\* snapshot of that body, whatever its place among the fetches in flight, and
\* no other step changes priceData; so once overlapping fetches have all
\* settled the snapshot shown is that of the success that settled last.
C12_LastSuccessWins ==
    [][inst' = inst =>
          IF /\ Len(inflight') < Len(inflight)
             /\ lastStep' = "priceResponse"
             /\ lastResp'.kind = "ok"
             /\ ~lastResp'.data.null
          THEN \A k \in SnapshotKeys :
                  /\ k \in DOMAIN priceData'
                  /\ priceData'[k] = SnapshotOf(lastResp'.data)[k]
          ELSE priceData' = priceData]_vars

\* C12 witness: overlapping fetches have all settled, one of them before a
\* fetch issued earlier, and the body that settled last is the one shown
C12_Witness ==
    /\ inflight = <<>>
    /\ overtaken
    /\ lastStep = "priceResponse"
    /\ lastResp = OkResp(FullBody)
    /\ DOMAIN priceData = SnapshotKeys
    /\ priceData["goldPrice1g"] = Str("6150")
    /\ priceData["silverPrice1g"] = Str("75")

\* C17: whenever a price fetch of the screen is in flight, loading or
\* refreshing is true: a fetch that settles does not clear the indicator of
\* another fetch that is still in flight.
C17_IndicatorWhileInFlight ==
    (\E k \in DOMAIN inflight : inflight[k].inst = inst)
        => (loading \/ refreshing)

\* C18: when a fetch has settled with a snapshot and no fetch is in flight any
\* more, the error banner is empty: a banner that is shown with no fetch in
\* flight comes from a failure that settled last, never from a fetch that
\* overlapped the successful one.
C18_NoErrorBesideFreshPrices ==
    (/\ lastStep = "priceResponse"
     /\ lastResp.kind = "ok"
     /\ ~lastResp.data.null
     /\ ~\E k \in DOMAIN inflight : inflight[k].inst = inst)
        => error = ""

\* C19: whenever no price fetch of the screen is in flight, loading and
\* refreshing are both false; and, every request settling in the end, a state
\* with loading or refreshing true is followed by one where both are false.
C19_FlagsFallBack ==
    /\ []((~\E k \in DOMAIN inflight : inflight[k].inst = inst)
             => (~loading /\ ~refreshing))
    /\ (loading \/ refreshing) ~> (~loading /\ ~refreshing)

\* C19 witness: the last of the overlapping fetches has settled, both flags false
C19_Witness ==
    /\ lastStep = "priceResponse"
    /\ inflight = <<>>
    /\ overtaken
    /\ mounted
    /\ ~loading
    /\ ~refreshing

-----------------------------------------------------------------------------
(* Claims about failures, checked under ClassSpec *)

\* C14: every failure of a login request or of a price fetch, whatever is
\* thrown, is caught in its handler: the handler ends with a non-empty error
\* message, its loading flags false, and no exception escapes it.
C14_EveryFailureCaught ==
    /\ (lastStep = "loginResponse" /\ lastResp.kind # "ok")
          => (~unhandled /\ loginError # "" /\ ~loginLoading)
    /\ (lastStep = "priceResponse" /\ lastResp.kind # "ok")
          => (~unhandled /\ error # "" /\ ~loading /\ ~refreshing)

\* C15: on both screens a caught failure is classified by its message:
\* 'Network request failed' or 'fetch' in it gives the network message, else
\* 'timeout' in it gives the timeout message, else the generic message of the
\* screen; 'HTTP error! status: N' gives the generic message.
C15_ClassifiedByMessage ==
    LET msg == IF lastResp.kind = "http"
               THEN <<"HTTP error! status: ", lastResp.status>>
               ELSE lastResp.msg
        has(x) == \E i \in DOMAIN msg : msg[i] = x
        class == IF has("Network request failed") \/ has("fetch") THEN "network"
                 ELSE IF has("timeout") THEN "timeout"
                 ELSE "generic"
        caught == lastResp.kind \in {"http", "reject", "badjson"}
    IN  /\ (lastStep = "loginResponse" /\ caught) =>
              /\ loginError =
                   CASE class = "network" ->
                          "Network connection error. Please check your internet connection and try again."
                     [] class = "timeout" -> "Request timeout. Please try again."
                     [] OTHER -> "Login failed. Please check your credentials and try again."
              /\ lastResp.kind = "http" =>
                    loginError = "Login failed. Please check your credentials and try again."
        /\ (lastStep = "priceResponse" /\ caught) =>
              /\ error =
                   CASE class = "network" ->
                          "Network connection error. Please check your internet connection."
                     [] class = "timeout" -> "Request timeout. Please try again."
                     [] OTHER -> "Failed to fetch prices. Please try again."
              /\ lastResp.kind = "http" =>
                    error = "Failed to fetch prices. Please try again."

\* C15 witness: a message holding both 'timeout' and 'fetch' is a network
\* error on the dashboard
C15_Witness ==
    /\ lastStep = "priceResponse"
    /\ lastResp = RejectResp(<<"timeout", "fetch">>)
    /\ error = "Network connection error. Please check your internet connection."

====
